---- MODULE Spec2Model ----
(***************************************************************************)
(* Model of the model-viewer program: Application::run (the frame          *)
(* scheduler: src/src/app/application.rs) driving the Renderer             *)
(* (src/src/render/renderer.rs).                                           *)
(*                                                                         *)
(* Time is counted in nanoseconds, the resolution of std::time::Duration.  *)
(* Instants are kept relative to the current instant: since_update is      *)
(* last_update_inst.elapsed(), since_frame is last_frame_inst.elapsed().   *)
(* An f32 is a pair <<m, e>> standing for m * 2^e, with m = 0 or           *)
(* 2^23 <= m < 2^24, and its operations round to nearest, ties to even.    *)
(***************************************************************************)
EXTENDS Integers, Sequences, FiniteSets

\* ------------------------------------------------------------------ bounds

\* Largest value of last_update_inst.elapsed() / last_frame_inst.elapsed()
\* (nanoseconds) the clock is let to reach in the scheduler specification.
MaxElapsed == 3
\* Largest time (nanoseconds) that passes between two clock readings, or
\* between a clock reading and a call, inside one handler invocation.
MaxReadDelay == 1
\* Number of RedrawRequested events handled in the scheduler specification.
MaxFrames == 1
\* Number of draws in the renderer specification.
MaxDraws == 2
\* The frame-timer specification: every (slow_every + 1)-th frame takes the
\* second frame time, slow_every in 0..MaxSlowEvery (0: none does), and it
\* runs for MaxReports reports.
MaxSlowEvery == 2
MaxReports == 2

\* --------------------------------------------------------- program constants

\* std::time::Duration: nanoseconds per second.
NANOS_PER_SEC == 1000000000
\* application.rs:63: a report every 100 frames.
ReportEvery == 100
\* application.rs:66: accum_time * 1000.0
SecsToMillis == 1000

\* Frame rates F (frames per second) the Application is constructed with.
\* They are chosen so that the target frame time 1/F is a few nanoseconds:
\* 3.33 ns, 1.67 ns and 0.67 ns.
FrameRates == {300000000, 600000000, 1500000000}
\* The same for the specifications that follow the renderer and the frame
\* timer: 4 ns.
FrameRateRenderer == {250000000}
\* Duration::from_secs_f64 cuts toward zero (Rust before 1.63) or rounds to
\* nearest (Rust 1.63 and later): the build decides.
DurationRoundings == {"trunc", "nearest"}
\* Frame times (nanoseconds) of the frame-timer specification: 16 ms, 17 ms.
FrameTimeA == 16 * 1000000
FrameTimeB == 17 * 1000000
\* Window sizes (width, height) read by Renderer::new.
WindowSizes == {<<800, 600>>, <<640, 480>>}

\* ------------------------------------------------------------------- f32

Pow2(n) == 2 ^ n
F32Zero == <<0, 0>>
F32Hidden == Pow2(23)
F32Limit == Pow2(24)

\* Number of bits of n, 0 < n < 2^31.
BitLen(n) ==
  IF n >= Pow2(30) THEN 31
  ELSE CHOOSE b \in 1..30 : Pow2(b - 1) <= n /\ n < Pow2(b)

\* 1 when q + r / 2^k rounds up to q + 1 (nearest, ties to even), 0 <= r < 2^k;
\* sticky says that the value holds more than r below the last bit.
RoundUp(q, r, k, sticky) ==
  IF k = 0 THEN 0
  ELSE LET half == Pow2(k - 1)
       IN  IF r > half \/ (r = half /\ (sticky \/ q % 2 = 1)) THEN 1 ELSE 0

\* A mantissa that rounding carried to 2^24 is renormalised.
F32Pack(m, e) == IF m = F32Limit THEN <<F32Hidden, e + 1>> ELSE <<m, e>>

\* The f32 nearest to n * 2^e for an integer 0 <= n < 2^31 (an `as f32` cast).
F32OfInt(n, e) ==
  IF n = 0 THEN F32Zero
  ELSE LET bits == BitLen(n)
       IN  IF bits <= 24
           THEN <<n * Pow2(24 - bits), e - (24 - bits)>>
           ELSE LET k == bits - 24
                    q == n \div Pow2(k)
                    r == n % Pow2(k)
                IN  F32Pack(q + RoundUp(q, r, k, FALSE), e + k)

\* x + y for f32 values x, y >= 0.
F32AddOrdered(x, y) ==
  \* x[2] >= y[2], both non-zero
  LET d == x[2] - y[2]
  IN  IF d >= 26 THEN x
      ELSE LET q == y[1] \div Pow2(d)
               r == y[1] % Pow2(d)
               t == x[1] + q
           IN  IF t < F32Limit
               THEN F32Pack(t + RoundUp(t, r, d, FALSE), x[2])
               ELSE LET q2 == t \div 2
                        r2 == (t % 2) * Pow2(d) + r
                    IN  F32Pack(q2 + RoundUp(q2, r2, d + 1, FALSE), x[2] + 1)

F32Add(x, y) ==
  IF x[1] = 0 THEN y
  ELSE IF y[1] = 0 THEN x
  ELSE IF x[2] >= y[2] THEN F32AddOrdered(x, y) ELSE F32AddOrdered(y, x)

\* Long division: <<floor(n * 2^k / d), n * 2^k % d>>, given qr = <<n \div d, n % d>>.
RECURSIVE DivBits(_, _, _)
DivBits(qr, d, k) ==
  IF k = 0 THEN qr
  ELSE LET r2 == 2 * qr[2]
           bit == IF r2 >= d THEN 1 ELSE 0
       IN  DivBits(<<2 * qr[1] + bit, r2 - bit * d>>, d, k - 1)

\* x / y for f32 values x >= 0, y > 0.
F32Div(x, y) ==
  IF x[1] = 0 THEN F32Zero
  ELSE LET qr == DivBits(<<x[1] \div y[1], x[1] % y[1]>>, y[1], 25)
           q == qr[1]
           sticky == qr[2] > 0
           e == x[2] - y[2] - 25
       IN  IF q >= Pow2(25)
           THEN F32Pack((q \div 4) + RoundUp(q \div 4, q % 4, 2, sticky), e + 2)
           ELSE F32Pack((q \div 2) + RoundUp(q \div 2, q % 2, 1, sticky), e + 1)

\* x * 1000.0: as 1000 = 125 * 2^3, the product of the mantissa by 125,
\* rounded once, with the exponent raised by 3.
F32MulMillis(x) ==
  IF x[1] = 0 THEN F32Zero
  ELSE F32OfInt(x[1] * (SecsToMillis \div Pow2(3)), x[2] + 3)

\* Duration::as_secs_f32 of a Duration of ns nanoseconds:
\* (secs as f32) + (nanos as f32) / (NANOS_PER_SEC as f32).
as_secs_f32(ns) ==
  F32Add(F32OfInt(ns \div NANOS_PER_SEC, 0),
         F32Div(F32OfInt(ns % NANOS_PER_SEC, 0), F32OfInt(NANOS_PER_SEC, 0)))

\* Duration::from_secs_f64(1.0 / frame_rate), in nanoseconds: the quotient
\* NANOS_PER_SEC / frame_rate cut or rounded to a whole number of nanoseconds.
from_secs_f64_recip(rate, rounding) ==
  LET q == NANOS_PER_SEC \div rate
      r == NANOS_PER_SEC % rate
  IN  IF rounding = "trunc" THEN q
      ELSE IF r > rate - r \/ (r = rate - r /\ q % 2 = 1) THEN q + 1 ELSE q

\* ------------------------------------------------------------- the renderer

None == <<>>
Some(x) == <<x>>
IsSome(o) == o # None
Unwrap(o) == o[1]

\* renderer.rs:89-113: the 8 cube positions, 3 coordinates each, in units of
\* 0.5 (so -1 stands for -0.5 and 1 for 0.5); vertex v is entries 3v+1..3v+3.
cube_positions ==
  << -1, -1, -1,    1, -1, -1,    -1, -1, 1,    1, -1, 1,
     -1, 1, -1,     1, 1, -1,     -1, 1, 1,     1, 1, 1 >>

\* renderer.rs:114-117
index_data ==
  << 4, 5, 1, 4, 1, 0, 5, 7, 3, 5, 3, 1, 7, 6, 2, 7, 2, 3, 6, 4, 0, 6, 0, 2, 6, 7, 5, 6, 5,
     4, 0, 1, 3, 0, 3, 4 >>

\* renderer.rs:152-155: the matrix generate_matrix builds from the aspect
\* ratio (an f32 division of width by height); its entries are not computed.
mx_total(config) ==
  [matrix |-> "correction * projection * view",
   aspect |-> F32Div(F32OfInt(config.width, 0), F32OfInt(config.height, 0))]

\* Renderer::new: the surface is configured with surface_config and the
\* optional fields are None.
RendererNew(size) ==
  LET surface_config == [width |-> size[1], height |-> size[2],
                         present_mode |-> "Fifo", usage |-> "RENDER_ATTACHMENT"]
  IN  [surface_config  |-> surface_config,
       surface         |-> surface_config,
       active_pipeline |-> None,
       vertex_buffer   |-> None,
       index_buffer    |-> None,
       index_count     |-> 0,
       bind_group      |-> None]

\* init_cube without the bind group stored.
init_cube_NoBindGroup(r) ==
  [r EXCEPT !.active_pipeline = Some([label |-> "Render Pipeline"]),
            !.vertex_buffer   = Some([label |-> "Vertex Buffer", contents |-> cube_positions]),
            !.index_buffer    = Some([label |-> "Index Buffer", contents |-> index_data]),
            !.index_count     = Len(index_data)]

\* init_cube counting the vertices instead of the indices.
init_cube_VertexCount(r) ==
  [r EXCEPT !.active_pipeline = Some([label |-> "Render Pipeline"]),
            !.vertex_buffer   = Some([label |-> "Vertex Buffer", contents |-> cube_positions]),
            !.index_buffer    = Some([label |-> "Index Buffer", contents |-> index_data]),
            !.index_count     = Len(cube_positions) \div 3,
            !.bind_group      = Some([binding |-> 0])]

\* Renderer::init_cube: creates the buffers, the bind group and the pipeline
\* and stores them (renderer.rs:216-220).
init_cube(r) ==
  LET vertex_buffer == [label |-> "Vertex Buffer", contents |-> cube_positions]
      index_buffer  == [label |-> "Index Buffer", contents |-> index_data]
      uniform_buf   == [label |-> "Uniform Buffer", contents |-> mx_total(r.surface_config)]
      bind_group    == [binding |-> 0, resource |-> uniform_buf]
      pipeline      == [label |-> "Render Pipeline", topology |-> "TriangleStrip",
                        strip_index_format |-> "Uint32", cull_mode |-> "Back"]
  IN  [r EXCEPT !.active_pipeline = Some(pipeline),
                !.vertex_buffer   = Some(vertex_buffer),
                !.index_buffer    = Some(index_buffer),
                !.index_count     = Len(index_data),
                !.bind_group      = Some(bind_group)]

\* One call made on the graphics API; arg is its integer argument (0: none).
Call(op, arg) == [op |-> op, arg |-> arg]
AcquireOk == 1
AcquireErr == 0
Acquire(ok) == Call("get_current_texture", IF ok THEN AcquireOk ELSE AcquireErr)

\* The calls of a render pass up to the first unwrap of a None field, which
\* panics; the pass ends with the indexed draw.
RenderPass(pipeline, bind_group, index_buffer, vertex_buffer, index_count) ==
  LET begin == << Call("create_view", 0), Call("create_command_encoder", 0),
                  Call("begin_render_pass:Clear", 0), Call("push_debug_group", 0) >>
      unwrap == << Call("panic:unwrap", 0) >>
  IN  IF ~IsSome(pipeline) THEN begin \o unwrap
      ELSE IF ~IsSome(bind_group) THEN begin \o << Call("set_pipeline", 0) >> \o unwrap
      ELSE IF ~IsSome(index_buffer)
        THEN begin \o << Call("set_pipeline", 0), Call("set_bind_group", 0) >> \o unwrap
      ELSE IF ~IsSome(vertex_buffer)
        THEN begin \o << Call("set_pipeline", 0), Call("set_bind_group", 0),
                         Call("set_index_buffer:Uint32", 0) >> \o unwrap
      ELSE begin \o << Call("set_pipeline", 0), Call("set_bind_group", 0),
                       Call("set_index_buffer:Uint32", 0), Call("set_vertex_buffer", 0),
                       Call("pop_debug_group", 0), Call("insert_debug_marker", 0),
                       Call("draw_indexed", index_count) >>

Panicked(calls) ==
  Len(calls) > 0 /\ calls[Len(calls)].op \in {"panic:unwrap", "panic:expect"}

\* An acquisition that reconfigures and retries a second time.
AcquireFrame_Twice(first_ok, second_ok) ==
  IF first_ok THEN << Acquire(TRUE) >>
  ELSE << Acquire(FALSE), Call("configure", 0), Acquire(FALSE),
          Call("configure", 0), Acquire(second_ok) >>
       \o (IF second_ok THEN << >> ELSE << Call("panic:expect", 0) >>)

\* application.rs:72-83: get_current_texture, and on Err one configure with
\* the stored surface_config and one more get_current_texture, whose Err
\* panics ("Failed to acquire next surface texture.").
AcquireFrame(first_ok, second_ok) ==
  IF first_ok THEN << Acquire(TRUE) >>
  ELSE << Acquire(FALSE), Call("configure", 0), Acquire(second_ok) >>
       \o (IF second_ok THEN << >> ELSE << Call("panic:expect", 0) >>)

\* A render section that presents the frame before it submits the commands.
RenderSection_PresentFirst(r, first_ok, second_ok) ==
  LET acquire == AcquireFrame(first_ok, second_ok)
      pass == RenderPass(r.active_pipeline, r.bind_group, r.index_buffer,
                         r.vertex_buffer, r.index_count)
  IN  IF Panicked(acquire) THEN acquire
      ELSE IF Panicked(pass) THEN acquire \o pass
      ELSE acquire \o pass \o << Call("present", 0), Call("submit", 0) >>

\* application.rs:72-125: the render section of the RedrawRequested handler:
\* the calls it makes, given the results of the acquisitions.
RenderSection(r, first_ok, second_ok) ==
  LET acquire == AcquireFrame(first_ok, second_ok)
      pass == RenderPass(r.active_pipeline, r.bind_group, r.index_buffer,
                         r.vertex_buffer, r.index_count)
  IN  IF Panicked(acquire) THEN acquire
      ELSE IF Panicked(pass) THEN acquire \o pass
      ELSE acquire \o pass \o << Call("submit", 0), Call("present", 0) >>

\* renderer.rs:225-236: the same acquisition in Renderer::draw_cube.
draw_cube_acquire(first_ok, second_ok) ==
  IF first_ok THEN << Acquire(TRUE) >>
  ELSE << Acquire(FALSE), Call("configure", 0), Acquire(second_ok) >>
       \o (IF second_ok THEN << >> ELSE << Call("panic:expect", 0) >>)

\* renderer.rs:223-275: Renderer::draw_cube.
draw_cube(r, first_ok, second_ok) ==
  LET acquire == draw_cube_acquire(first_ok, second_ok)
      pass == RenderPass(r.active_pipeline, r.bind_group, r.index_buffer,
                         r.vertex_buffer, r.index_count)
  IN  IF Panicked(acquire) THEN acquire
      ELSE IF Panicked(pass) THEN acquire \o pass
      ELSE acquire \o pass \o << Call("submit", 0), Call("present", 0) >>

\* A reconfigure that stores the configuration of a window of another size.
SurfaceAfter_Resized(r, calls) ==
  IF \E i \in 1..Len(calls) : calls[i].op = "configure"
  THEN [r EXCEPT !.surface_config.width = 2 * @,
                 !.surface = [r.surface_config EXCEPT !.width = 2 * @]]
  ELSE r

\* Surface::configure(&device, &surface_config) when the calls hold one.
SurfaceAfter(r, calls) ==
  IF \E i \in 1..Len(calls) : calls[i].op = "configure"
  THEN [r EXCEPT !.surface = r.surface_config] ELSE r

\* ------------------------------------------------------------------ state

VARIABLES
  phase,          \* where Application::run is: "constructed", "initialising",
                  \* "running" (in event_loop.run), "exited", "panicked"
  frame_rate,     \* Application.frame_rate
  rounding,       \* how this build's Duration::from_secs_f64 rounds
  renderer,       \* Application.renderer
  since_update,   \* last_update_inst.elapsed() at the current instant
  since_frame,    \* last_frame_inst.elapsed() at the current instant
  frame_count,    \* frame_count
  accum_time,     \* accum_time (f32)
  control_flow,   \* the event loop's ControlFlow; a WaitUntil deadline is kept
                  \* as the time left until it, 0 once it is reached
  redraw_pending, \* window.request_redraw() was called and not yet served
  calls,          \* the graphics calls of the latest draw
  closed,         \* "no"; "closed": a CloseRequested event was handled;
                  \* "waited": and then a handler assigned WaitUntil
  since_request,  \* time since the latest request_redraw (or timer start)
  requests,       \* parity of the number of request_redraw calls
  frames,         \* RedrawRequested events handled
  drawer,         \* who made the latest draw: "none", "run", "draw_cube"
  sum_ns,         \* exact sum of the elapsed times added to accum_time
  report,         \* the report of the latest RedrawRequested handler, if any
  slow_every      \* the frame-time profile of the frame-timer specification

vars == << phase, frame_rate, rounding, renderer, since_update, since_frame,
           frame_count, accum_time, control_flow, redraw_pending, calls, closed,
           since_request, requests, frames, drawer, sum_ns,
           report, slow_every >>

timer_vars == << since_update, since_frame, since_request >>
frame_vars == << frame_count, accum_time, frames, sum_ns, report >>

Poll == [kind |-> "Poll", at |-> 0]
Exit == [kind |-> "Exit", at |-> 0]
WaitUntil(at) == [kind |-> "WaitUntil", at |-> at]
NoReport == None

\* The state after Application::new (application.rs:18-32, main.rs:7 passes
\* 60.0): the event loop's ControlFlow starts as Poll.
InitWith(rates, profiles, sizes) ==
  /\ phase = "constructed"
  /\ frame_rate \in rates
  /\ rounding \in DurationRoundings
  /\ renderer \in { RendererNew(size) : size \in sizes }
  /\ since_update = 0
  /\ since_frame = 0
  /\ frame_count = 0
  /\ accum_time = F32Zero
  /\ control_flow = Poll
  /\ redraw_pending = FALSE
  /\ calls = << >>
  /\ closed = "no"
  /\ since_request = 0
  /\ requests = 0
  /\ frames = 0
  /\ drawer = "none"
  /\ sum_ns = 0
  /\ report = NoReport
  /\ slow_every \in profiles

Init == InitWith(FrameRates, {0}, {<<800, 600>>})

\* ------------------------------------------------------------------ time

Max(a, b) == IF a >= b THEN a ELSE b

\* The ControlFlow after d nanoseconds: a deadline comes d closer.
Later(cf, d) ==
  IF cf.kind = "WaitUntil" THEN WaitUntil(Max(cf.at - d, 0)) ELSE cf

CanPass(d) ==
  \/ d = 0
  \/ /\ since_update + d <= MaxElapsed
     /\ since_frame + d <= MaxElapsed

\* Time passes between two steps of the program.
Tick ==
  /\ phase \in {"initialising", "running"}
  /\ \E d \in 1..MaxElapsed :
       /\ CanPass(d)
       /\ since_update' = since_update + d
       /\ since_frame' = since_frame + d
       /\ since_request' = since_request + d
       /\ control_flow' = Later(control_flow, d)
  /\ UNCHANGED << phase, frame_rate, rounding, renderer, frame_vars,
                  redraw_pending, calls, drawer, closed, requests, slow_every >>

\* ------------------------------------------------------- Application::run

\* application.rs:35-38: the timers and counters are initialised.
RunTimers ==
  /\ phase = "constructed"
  /\ phase' = "initialising"
  /\ since_update' = 0
  /\ since_frame' = 0
  /\ since_request' = 0
  /\ frame_count' = 0
  /\ accum_time' = F32Zero
  /\ UNCHANGED << frame_rate, rounding, renderer, control_flow, redraw_pending,
                  calls, closed, requests, frames, drawer,
                  sum_ns, report, slow_every >>

\* application.rs:39-40: init_cube, then the event loop starts.
RunInitCube ==
  /\ phase = "initialising"
  /\ renderer' = init_cube(renderer)
  /\ phase' = "running"
  /\ UNCHANGED << frame_rate, rounding, timer_vars, frame_vars, control_flow,
                  redraw_pending, calls, drawer, closed, requests, slow_every >>

\* winit's EventLoop::run hands the closure the loop's ControlFlow, and a
\* dummy once it is Exit: ControlFlow::Exit is sticky.
Sticky(assigned) == IF control_flow.kind = "Exit" THEN control_flow ELSE assigned

\* A close handler that leaves the loop waiting.
CloseAssigns_Wait == [kind |-> "Wait", at |-> 0]

\* application.rs:43: *control_flow = ControlFlow::Exit
CloseAssigns == Exit

\* application.rs:42-44: WindowEvent::CloseRequested.

CloseRequested ==
  /\ phase = "running"
  /\ control_flow' = Sticky(CloseAssigns)
  /\ closed' = IF closed = "no" THEN "closed" ELSE closed
  /\ UNCHANGED << phase, frame_rate, rounding, renderer, timer_vars, frame_vars,
                  redraw_pending, calls, drawer, requests, slow_every >>

\* application.rs:45, 127-128: every other event is ignored.
OtherEvent ==
  /\ phase = "running"
  /\ UNCHANGED vars

\* The loop ends after an iteration that left ControlFlow::Exit.
LoopExit ==
  /\ phase = "running"
  /\ control_flow.kind = "Exit"
  /\ phase' = "exited"
  /\ UNCHANGED << frame_rate, rounding, renderer, timer_vars, frame_vars,
                  control_flow, redraw_pending, calls, drawer, closed,
                  requests, slow_every >>

\* application.rs:48
target_frametime == from_secs_f64_recip(frame_rate, rounding)

\* A comparison that lets the frame time itself pass.
RedrawDue_Strict(elapsed, target) == elapsed > target

\* application.rs:50
RedrawDue(elapsed, target) == elapsed >= target

\* A reference instant that is never moved.
ResetUpdateInst_Kept(elapsed_now) == elapsed_now

\* application.rs:52: last_update_inst = Instant::now(), as the value of
\* last_update_inst.elapsed() right after it.
ResetUpdateInst(elapsed_now) == 0

\* application.rs:54-56: Instant::now() + target_frametime - time_since_last_frame,
\* as the time left at that Instant::now().
WaitDeadline(target, elapsed) == target - elapsed

\* application.rs:47-58: Event::RedrawEventsCleared. d1 passes between
\* last_update_inst.elapsed() and request_redraw or Instant::now(), d2 between
\* request_redraw and Instant::now().
RedrawEventsCleared(d1, d2) ==
  LET elapsed == since_update
      due == RedrawDue(elapsed, target_frametime)
      took == IF due THEN d1 + d2 ELSE d1
      assigned == IF due THEN control_flow
                  ELSE WaitUntil(WaitDeadline(target_frametime, elapsed))
  IN  /\ phase = "running"
      /\ CanPass(took)
      /\ since_frame' = since_frame + took
      /\ IF due
         THEN /\ redraw_pending' = TRUE
              /\ requests' = 1 - requests
              /\ since_request' = d2
              /\ since_update' = ResetUpdateInst(elapsed + took)
              /\ control_flow' = Later(control_flow, took)
         ELSE /\ control_flow' = Sticky(assigned)
              /\ since_update' = elapsed + took
              /\ since_request' = since_request + took
              /\ UNCHANGED << redraw_pending, requests >>
      /\ closed' = IF closed = "closed" /\ ~due THEN "waited" ELSE closed
      /\ UNCHANGED << phase, frame_rate, rounding, renderer, frame_vars, calls,
                      drawer, slow_every >>

\* A report one frame early.
ReportDue_Early(count) == count = ReportEvery - 1

\* application.rs:63
ReportDue(count) == count = ReportEvery

\* application.rs:66: accum_time * 1000.0 / frame_count as f32
AverageMillis(accum, count) == F32Div(F32MulMillis(accum), F32OfInt(count, 0))

\* application.rs:68-69: the accumulator and the counter after a report.
AfterReport == << F32Zero, 0 >>

\* application.rs:59-126: Event::RedrawRequested. d passes between
\* last_frame_inst.elapsed() and Instant::now(); first_ok and second_ok are
\* the results of the surface's get_current_texture.
RedrawRequested(d, first_ok, second_ok) ==
  LET elapsed == since_frame
      accum == F32Add(accum_time, as_secs_f32(elapsed))
      count == frame_count + 1
      due == ReportDue(count)
      drawn == RenderSection(renderer, first_ok, second_ok)
      window_full == (frames + 1) % ReportEvery = 0
  IN  /\ phase = "running"
      /\ CanPass(d)
      /\ since_frame' = 0
      /\ since_update' = since_update + d
      /\ since_request' = since_request + d
      /\ control_flow' = Later(control_flow, d)
      /\ accum_time' = IF due THEN AfterReport[1] ELSE accum
      /\ frame_count' = IF due THEN AfterReport[2] ELSE count
      /\ report' = IF due
                   THEN Some([value |-> AverageMillis(accum, count),
                              sum_ns |-> sum_ns + elapsed])
                   ELSE NoReport
      /\ frames' = frames + 1
      /\ sum_ns' = IF window_full THEN 0 ELSE sum_ns + elapsed
      /\ redraw_pending' = FALSE
      /\ calls' = drawn
      /\ drawer' = "run"
      /\ renderer' = SurfaceAfter(renderer, drawn)
      /\ phase' = IF Panicked(drawn) THEN "panicked" ELSE phase
      /\ UNCHANGED << frame_rate, rounding, closed, requests, slow_every >>

\* A RedrawRequested event: after request_redraw, or when the window system
\* asks for a repaint.
ServeRedraw ==
  /\ frames < MaxFrames
  /\ \E d \in 0..MaxReadDelay, first_ok \in BOOLEAN, second_ok \in BOOLEAN :
       RedrawRequested(d, first_ok, second_ok)

\* A RedrawEventsCleared event.
IdleTick ==
  \E d1 \in 0..MaxReadDelay, d2 \in 0..MaxReadDelay : RedrawEventsCleared(d1, d2)

Next ==
  \/ RunTimers
  \/ RunInitCube
  \/ Tick
  \/ CloseRequested
  \/ OtherEvent
  \/ IdleTick
  \/ ServeRedraw
  \/ LoopExit

Spec == Init /\ [][Next]_vars

\* ---------------------------------------------- a caller of draw_cube

\* Renderer::draw_cube(&renderer), called once init_cube has run.
DrawCubeCall ==
  /\ phase = "running"
  /\ frames < MaxDraws
  /\ \E first_ok \in BOOLEAN, second_ok \in BOOLEAN :
       LET drawn == draw_cube(renderer, first_ok, second_ok)
       IN  /\ calls' = drawn
           /\ drawer' = "draw_cube"
           /\ renderer' = SurfaceAfter(renderer, drawn)
           /\ phase' = IF Panicked(drawn) THEN "panicked" ELSE phase
  /\ frames' = frames + 1
  /\ UNCHANGED << frame_rate, rounding, timer_vars, frame_count, accum_time,
                  sum_ns, report, control_flow, redraw_pending, closed,
                  requests, slow_every >>

\* A RedrawRequested event served by the handler of Application::run.
DrawEvent ==
  /\ frames < MaxDraws
  /\ \E first_ok \in BOOLEAN, second_ok \in BOOLEAN :
       RedrawRequested(0, first_ok, second_ok)

NextRenderer ==
  \/ RunTimers
  \/ RunInitCube
  \/ CloseRequested
  \/ DrawEvent
  \/ DrawCubeCall
  \/ LoopExit

InitRenderer == InitWith(FrameRateRenderer, {0}, WindowSizes)

SpecRenderer == InitRenderer /\ [][NextRenderer]_vars

\* ------------------------------------------------- the frame timer at work

\* The frame time of the frame after `frames` frames, by the profile.
FrameTime ==
  IF slow_every > 0 /\ (frames + 1) % (slow_every + 1) = 0
  THEN FrameTimeB ELSE FrameTimeA

\* A whole frame time passes once the idle tick and the redraw are served.
FrameTick ==
  /\ phase = "running"
  /\ since_update = 0
  /\ since_frame = 0
  /\ frames < MaxReports * ReportEvery
  /\ since_update' = since_update + FrameTime
  /\ since_frame' = since_frame + FrameTime
  /\ since_request' = since_request + FrameTime
  /\ control_flow' = Later(control_flow, FrameTime)
  /\ UNCHANGED << phase, frame_rate, rounding, renderer, frame_vars,
                  redraw_pending, calls, drawer, closed, requests,
                  slow_every >>

\* The RedrawRequested event that follows request_redraw.
ServeFrame ==
  /\ redraw_pending
  /\ since_frame > 0
  /\ \E first_ok \in BOOLEAN, second_ok \in BOOLEAN :
       RedrawRequested(0, first_ok, second_ok)

FrameIdleTick ==
  /\ since_update > 0
  /\ RedrawEventsCleared(0, 0)

NextFrameTimer ==
  \/ RunTimers
  \/ RunInitCube
  \/ FrameTick
  \/ FrameIdleTick
  \/ ServeFrame

InitFrameTimer == InitWith(FrameRateRenderer, 0..MaxSlowEvery, {<<800, 600>>})

SpecFrameTimer == InitFrameTimer /\ [][NextFrameTimer]_vars

\* ------------------------------------------------------------------ claims

Last(seq) == seq[Len(seq)]
CountOp(seq, op) == Cardinality({ i \in 1..Len(seq) : seq[i].op = op })
Presented(seq) == Len(seq) > 0 /\ Last(seq).op = "present"

\* The time one step took, and the time from the latest request_redraw (or
\* the start of the timers) to the request_redraw of a step that makes one.
Took == since_frame' - since_frame
RequestStep == requests' # requests
RequestGap == since_request + (Took - since_request')

\* ns nanoseconds are at least 1/frame_rate seconds: ns * frame_rate >=
\* NANOS_PER_SEC, without the product.
AtLeastFramePeriod(ns) ==
  ns >= (NANOS_PER_SEC \div frame_rate)
          + (IF NANOS_PER_SEC % frame_rate = 0 THEN 0 ELSE 1)

C9_AsStated ==
  [][IdleTick =>
       IF AtLeastFramePeriod(since_update)
       THEN /\ RequestStep
            /\ redraw_pending'
            /\ since_update' = 0
       ELSE /\ ~RequestStep
            /\ redraw_pending' = redraw_pending
            /\ since_update' = since_update + Took
            /\ control_flow.kind # "Exit" =>
                 /\ control_flow'.kind = "WaitUntil"
                 /\ NANOS_PER_SEC % frame_rate = 0
                 /\ since_update + Took + control_flow'.at
                      = NANOS_PER_SEC \div frame_rate]_vars

\* C9, amended: with T the Duration from_secs_f64(1/frame_rate), a whole
\* number of nanoseconds: an idle tick with elapsed time e >= T requests a
\* redraw and resets the reference instant to the current time; one with
\* e < T requests nothing, leaves the reference instant alone and (unless
\* the loop is exiting) schedules the wake-up T - e after its second reading
\* of the clock, which is at or after the instant the interval elapses.
C9_IdleTick ==
  [][IdleTick =>
       IF since_update >= target_frametime
       THEN /\ RequestStep
            /\ redraw_pending'
            /\ since_update' = 0
       ELSE /\ ~RequestStep
            /\ redraw_pending' = redraw_pending
            /\ since_update' = since_update + Took
            /\ control_flow.kind # "Exit" =>
                 control_flow' = WaitUntil(target_frametime - since_update)]_vars

\* Both branches have been taken: a redraw is requested and a wake-up is set.
C9_Witness ==
  /\ redraw_pending
  /\ control_flow.kind = "WaitUntil"
  /\ control_flow.at > 0
  /\ since_update > 0

AllNone(r) ==
  /\ r.active_pipeline = None /\ r.vertex_buffer = None
  /\ r.index_buffer = None /\ r.bind_group = None
AllSome(r) ==
  /\ IsSome(r.active_pipeline) /\ IsSome(r.vertex_buffer)
  /\ IsSome(r.index_buffer) /\ IsSome(r.bind_group)

\* C4: the pipeline, the buffers and the bind group are all None (before
\* init_cube) or all Some (after it), and no draw runs while they are None.
C4_InitBeforeDraw ==
  /\ AllNone(renderer) \/ AllSome(renderer)
  /\ phase \in {"constructed", "initialising"} => AllNone(renderer) /\ drawer = "none"
  /\ phase = "running" => AllSome(renderer)
  /\ drawer # "none" => AllSome(renderer) /\ CountOp(calls, "panic:unwrap") = 0

\* A draw has run to its end.
C4_Witness == drawer = "run" /\ Presented(calls) /\ AllSome(renderer)

Vertices == 0..7
Faces == { <<axis, side>> : axis \in 1..3, side \in {-1, 1} }
Coord(v, axis) == cube_positions[3 * v + axis]
Triangle(indices, k) == << indices[3 * k - 2], indices[3 * k - 1], indices[3 * k] >>
OnFace(t, face) == \A i \in 1..3 : Coord(t[i], face[1]) = face[2]
FaceTriangle(t) ==
  /\ t[1] # t[2] /\ t[2] # t[3] /\ t[1] # t[3]
  /\ \E face \in Faces : OnFace(t, face)

\* C6: the 12 index triples are triangles on the faces of the cube, two on
\* each of the 6 faces.
C6_FacesCovered ==
  IsSome(renderer.index_buffer) =>
    LET indices == Unwrap(renderer.index_buffer).contents
        triangles == 1..(Len(indices) \div 3)
    IN  /\ \A k \in triangles : FaceTriangle(Triangle(indices, k))
        /\ \A face \in Faces :
             Cardinality({ k \in triangles : OnFace(Triangle(indices, k), face) }) = 2

\* C7: after init_cube the index buffer holds 36 entries, each a vertex index
\* in 0..7, every vertex occurs, and index_count is the number of entries.
C7_IndexBuffer ==
  /\ IsSome(renderer.index_buffer) =>
       LET indices == Unwrap(renderer.index_buffer).contents
       IN  /\ Len(indices) = 36
           /\ \A i \in 1..Len(indices) : indices[i] \in Vertices
           /\ \A v \in Vertices : \E i \in 1..Len(indices) : indices[i] = v
           /\ renderer.index_count = Len(indices)
           /\ renderer.index_count = 36
  /\ phase = "running" => IsSome(renderer.index_buffer)

\* init_cube has run and a frame was drawn from the buffer.
C7_Witness ==
  /\ IsSome(renderer.index_buffer)
  /\ drawer = "run"
  /\ CountOp(calls, "draw_indexed") = 1

\* What a draw must leave alone.
Static(r) ==
  << r.vertex_buffer, r.index_buffer, r.bind_group, r.index_count, r.surface_config >>

\* C8: after init_cube no step (a draw, with or without the reconfigure and
\* retry) changes the vertex, index or uniform buffer, index_count or the
\* stored surface configuration.
C8_DrawsKeepBuffers == [][AllSome(renderer) => Static(renderer') = Static(renderer)]_vars

\* Two draws were made, the latest by the reconfigure-and-retry path.
C8_Witness ==
  /\ frames >= 2
  /\ CountOp(calls, "configure") = 1
  /\ Presented(calls)
  /\ Static(renderer) = Static(init_cube(renderer))

\* C3: a draw whose first acquisition succeeds acquires once and never
\* reconfigures; one whose first acquisition fails reconfigures once, with
\* the stored configuration, acquires once more, and then goes on or panics.
C3_OneRetry ==
  drawer # "none" =>
    /\ calls[1].op = "get_current_texture"
    /\ CountOp(calls, "get_current_texture") \in {1, 2}
    /\ CountOp(calls, "configure") <= 1
    /\ calls[1].arg = AcquireOk =>
         /\ CountOp(calls, "get_current_texture") = 1
         /\ CountOp(calls, "configure") = 0
         /\ calls[2].op = "create_view"
    /\ calls[1].arg = AcquireErr =>
         /\ CountOp(calls, "get_current_texture") = 2
         /\ CountOp(calls, "configure") = 1
         /\ calls[2].op = "configure"
         /\ calls[3].op = "get_current_texture"
         /\ renderer.surface = renderer.surface_config
         /\ calls[3].arg = AcquireOk => calls[4].op = "create_view"
         /\ calls[3].arg = AcquireErr =>
              /\ Len(calls) = 4
              /\ calls[4].op = "panic:expect"
              /\ phase = "panicked"

\* draw_cube reconfigured, acquired at the second attempt and presented.
C3_Witness ==
  /\ drawer = "draw_cube"
  /\ calls[1].arg = AcquireErr
  /\ calls[3].arg = AcquireOk
  /\ Presented(calls)

\* The calls the claim lists, in the order it lists them.
DrawOps ==
  << "begin_render_pass:Clear", "set_pipeline", "set_bind_group",
     "set_index_buffer:Uint32", "set_vertex_buffer", "draw_indexed", "submit",
     "present" >>
Listed(call) == \E i \in 1..Len(DrawOps) : DrawOps[i] = call.op
Acquired(seq) ==
  \E i \in 1..Len(seq) : seq[i].op = "get_current_texture" /\ seq[i].arg = AcquireOk

\* C10: a draw that acquires a frame begins the clearing render pass, binds
\* the pipeline, bind group 0, the index and the vertex buffer, draws the 36
\* indices once, submits and then presents, each once and in this order.
C10_DrawOrder ==
  drawer # "none" /\ Acquired(calls) =>
    LET listed == SelectSeq(calls, Listed)
    IN  /\ [i \in 1..Len(listed) |-> listed[i].op] = DrawOps
        /\ listed[6].arg = renderer.index_count
        /\ listed[6].arg = 36
        /\ Last(calls).op = "present"

\* The handler of Application::run drew and presented a frame.
C10_Witness == drawer = "run" /\ Acquired(calls) /\ Presented(calls) /\ frames >= 2

\* The f32 nearest to n / d, for 0 < d < 2^30 and 2^-1 <= n / d < 2^5.
RatToF32(n, d) ==
  LET qr == DivBits(<< n \div d, n % d >>, d, 25)
      bits == BitLen(qr[1])
      k == bits - 24
      q == qr[1] \div Pow2(k)
      r == qr[1] % Pow2(k)
  IN  F32Pack(q + RoundUp(q, r, k, qr[2] > 0), k - 25)

\* The place of a positive f32 among the f32 values, counted from 2^-41.
Ord(x) == IF x[1] = 0 THEN 0 ELSE (x[2] + 64) * F32Hidden + (x[1] - F32Hidden)
UlpDistance(x, y) == IF Ord(x) >= Ord(y) THEN Ord(x) - Ord(y) ELSE Ord(y) - Ord(x)

\* The exact mean of the window, in milliseconds, as the nearest f32.
ExactMeanMillis(sum) == RatToF32(sum, ReportEvery * (NANOS_PER_SEC \div SecsToMillis))

ReportTiming ==
  /\ IsSome(report) <=> (frames > 0 /\ frames % ReportEvery = 0)
  /\ frame_count = frames % ReportEvery
  /\ IsSome(report) => frame_count = 0 /\ accum_time = F32Zero

\* C2 as stated: a report is made on every 100th redraw, its value is the
\* time accumulated over the 100 redraws divided by 100, in milliseconds
\* (16.0 for 100 redraws 16 ms apart), and the counter and the accumulator
\* are zero after it.
C2_AsStated ==
  /\ ReportTiming
  /\ IsSome(report) =>
       /\ Unwrap(report).value = ExactMeanMillis(Unwrap(report).sum_ns)
       /\ slow_every = 0 => Unwrap(report).value = << F32Hidden, -19 >>

\* C2, amended: a report is made on every 100th redraw, its value is the f32
\* accum_time * 1000 / 100, which is the mean of the 100 elapsed times in
\* milliseconds up to the rounding of the f32 sum (at most 105 units in the
\* last place; 16.000004 for 100 redraws 16 ms apart), and the counter and
\* the accumulator are zero after it.
C2_Report ==
  /\ ReportTiming
  /\ IsSome(report) =>
       /\ UlpDistance(Unwrap(report).value, ExactMeanMillis(Unwrap(report).sum_ns))
            <= ReportEvery + 5
       /\ slow_every = 0 => Unwrap(report).value = << F32Hidden + 2, -19 >>

\* The second report, of a run whose every other frame takes 17 ms.
C2_Witness ==
  /\ IsSome(report)
  /\ frames = 2 * ReportEvery
  /\ slow_every = 1

====
